---- MODULE Spec2Model ----
(***************************************************************************)
(* Model of isnt_that_odd's command line interface (cli.py).               *)
(*                                                                         *)
(* Text is a sequence of one-character strings.  Integers are unbounded    *)
(* in Python, so an integer is a sequence of decimal digits (most          *)
(* significant first, <<>> is zero) with a sign; a double keeps its 53-bit *)
(* significand, computed on bit sequences.                                 *)
(***************************************************************************)
EXTENDS Integers, Sequences, FiniteSets, TLC

VARIABLES value, ret, ppc, run, twin

vars == <<value, ret, ppc, run, twin>>

(***************************************************************************)
(* Bounds of the model.                                                    *)
(***************************************************************************)
MaxLen == 4
MaxArgs == 3

(***************************************************************************)
(* IEEE-754 binary64, the type of a Python float.                          *)
(***************************************************************************)
MantBits == 53
MaxBits == 1024
MinBit == 1074
MaxIntDigits == 309
MinPoint == -323

\* Python's None.
PyNone == [tag |-> "None"]

(***************************************************************************)
(* Characters                                                              *)
(***************************************************************************)
DigitChars == {"0", "1", "2", "3", "4", "5", "6", "7", "8", "9"}

DigitVal(c) ==
    CASE c = "0" -> 0 [] c = "1" -> 1 [] c = "2" -> 2 [] c = "3" -> 3
      [] c = "4" -> 4 [] c = "5" -> 5 [] c = "6" -> 6 [] c = "7" -> 7
      [] c = "8" -> 8 [] c = "9" -> 9

Lower(c) ==
    CASE c = "I" -> "i" [] c = "N" -> "n" [] c = "F" -> "f" [] c = "A" -> "a"
      [] c = "T" -> "t" [] c = "Y" -> "y" [] c = "E" -> "e"
      [] OTHER -> c

Whitespace == {" "}

\* The sequence with the elements of f, each computed once.
Tuple(f) == <<>> \o f

\* Body applied to the value of e, e computed once.
With(e, Body(_)) == CHOOSE r \in {Body(x) : x \in {e}} : TRUE

SeqMap(Op(_), s) == Tuple([i \in 1..Len(s) |-> Op(s[i])])

Zeros(n) == Tuple([i \in 1..n |-> 0])

(***************************************************************************)
(* Arithmetic on digit sequences.  The loops are unrolled by halving the   *)
(* count of steps, a step past the end changing nothing.                   *)
(***************************************************************************)
StripZeros(digits) ==
    With(digits, LAMBDA d :
        SubSeq(d, CHOOSE i \in 1..(Len(d) + 1) :
                      /\ i = Len(d) + 1 \/ d[i] # 0
                      /\ \A j \in 1..(i - 1) : d[j] = 0,
               Len(d)))

StripTrailingZeros(digits) ==
    With(digits, LAMBDA d :
        SubSeq(d, 1, CHOOSE i \in 0..Len(d) :
                         /\ i = 0 \/ d[i] # 0
                         /\ \A j \in (i + 1)..Len(d) : d[j] = 0))

IsZero(d) == \A i \in 1..Len(d) : d[i] = 0

\* d \div 2 by long division: the carry into a digit is the parity of the
\* digit before it.
Halve(digits) ==
    With(digits, LAMBDA d :
        Tuple([i \in 1..Len(d) |->
                  ((IF i > 1 THEN d[i - 1] % 2 ELSE 0) * 10 + d[i]) \div 2]))

\* 2 * d + b without the carry out of the first digit: the carry into a digit
\* is 1 exactly when the digit after it is 5 or more.
DoubleLow(digits, b) ==
    With(digits, LAMBDA d :
        Tuple([i \in 1..Len(d) |->
                  (2 * d[i] + (IF i < Len(d) THEN (IF d[i + 1] >= 5 THEN 1 ELSE 0)
                               ELSE b)) % 10]))

DoubleAdd(digits, b) ==
    With(digits, LAMBDA d :
        IF d = <<>> THEN (IF b = 0 THEN <<>> ELSE <<b>>)
        ELSE IF d[1] >= 5 THEN <<1>> \o DoubleLow(d, b) ELSE DoubleLow(d, b))

\* The binary digits of d, most significant first.
ToBitsStep(state) ==
    With(state, LAMBDA st :
        IF st.d = <<>> THEN st
        ELSE [d    |-> StripZeros(Halve(st.d)),
              bits |-> <<st.d[Len(st.d)] % 2>> \o st.bits])

RECURSIVE ToBitsLoop(_, _)
ToBitsLoop(st, n) ==
    IF n = 0 THEN st
    ELSE IF n = 1 THEN ToBitsStep(st)
    ELSE With(<<ToBitsLoop(st, n \div 2), n - n \div 2>>, LAMBDA h :
             IF h[1].d = <<>> THEN h[1] ELSE ToBitsLoop(h[1], h[2]))

ToBits(d) == ToBitsLoop([d |-> d, bits |-> <<>>], 4 * Len(d)).bits

\* The decimal digits of the integer with the given bits.
FromBitsStep(state) ==
    With(state, LAMBDA st :
        IF st.i > Len(st.bits) THEN st
        ELSE [st EXCEPT !.i = @ + 1, !.acc = DoubleAdd(st.acc, st.bits[st.i])])

RECURSIVE FromBitsLoop(_, _)
FromBitsLoop(st, n) ==
    IF n = 0 THEN st
    ELSE IF n = 1 THEN FromBitsStep(st)
    ELSE With(<<FromBitsLoop(st, n \div 2), n - n \div 2>>, LAMBDA h :
             IF h[1].i > Len(h[1].bits) THEN h[1] ELSE FromBitsLoop(h[1], h[2]))

FromBits(bits) ==
    FromBitsLoop([bits |-> StripZeros(bits), i |-> 1, acc |-> <<>>], Len(bits)).acc

\* bits + 1
IncBits(bits) ==
    With(bits, LAMBDA b :
        IF \A i \in 1..Len(b) : b[i] = 1 THEN <<1>> \o Zeros(Len(b))
        ELSE With(CHOOSE i \in 1..Len(b) :
                      b[i] = 0 /\ \A k \in (i + 1)..Len(b) : b[k] = 1,
                  LAMBDA j : Tuple([i \in 1..Len(b) |->
                                IF i < j THEN b[i] ELSE IF i = j THEN 1 ELSE 0])))

\* 2 * 0.f: the bit carried out and the fraction left, its length unchanged.
DoubleFrac(frac) ==
    With(frac, LAMBDA f :
        [bit |-> IF f # <<>> /\ f[1] >= 5 THEN 1 ELSE 0, rest |-> DoubleLow(f, 0)])

(***************************************************************************)
(* float(value): the conversion of text to a double (cli.py line 15).      *)
(* Surrounding whitespace is ignored, an underscore may stand between two  *)
(* digits, and the text is a signed "inf", "infinity", "nan" (any case) or *)
(* a decimal literal with an optional exponent.  Anything else raises      *)
(* ValueError.  The result is the double nearest to the literal, ties to   *)
(* even.  A finite double is written exactly: the decimal digits ip of its *)
(* integer part and the bits fb after the binary point.                    *)
(***************************************************************************)
ValueError == [tag |-> "raise", kind |-> "ValueError"]
OverflowError == [tag |-> "raise", kind |-> "OverflowError"]
Inf(neg) == [kind |-> "inf", neg |-> neg, ip |-> <<>>, fb |-> <<>>]
NaN == [kind |-> "nan", neg |-> FALSE, ip |-> <<>>, fb |-> <<>>]
Finite(neg, ip, fb) == [kind |-> "finite", neg |-> neg, ip |-> ip, fb |-> fb]

RECURSIVE Strip(_)
Strip(s) ==
    IF s = <<>> THEN s
    ELSE IF s[1] \in Whitespace THEN Strip(Tail(s))
    ELSE IF s[Len(s)] \in Whitespace THEN Strip(SubSeq(s, 1, Len(s) - 1))
    ELSE s

UnderscoresOk(s) ==
    \A i \in 1..Len(s) :
        s[i] = "_" => /\ i > 1 /\ i < Len(s)
                      /\ s[i - 1] \in DigitChars
                      /\ s[i + 1] \in DigitChars

RECURSIVE DropUnderscores(_)
DropUnderscores(s) ==
    IF s = <<>> THEN <<>>
    ELSE IF s[1] = "_" THEN DropUnderscores(Tail(s))
    ELSE <<s[1]>> \o DropUnderscores(Tail(s))

\* The first index from i on that holds no digit.
RECURSIVE SpanDigits(_, _)
SpanDigits(s, i) ==
    IF i <= Len(s) /\ s[i] \in DigitChars THEN SpanDigits(s, i + 1) ELSE i

RECURSIVE ToNat(_, _)
ToNat(d, acc) == IF d = <<>> THEN acc ELSE ToNat(Tail(d), acc * 10 + d[1])

\* mant rounded by the guard bit and the sticky flag, ties to even.
RoundUp(mant, guard, sticky) ==
    With(mant, LAMBDA m :
        IF guard = 1 /\ (sticky \/ (m # <<>> /\ m[Len(m)] = 1))
        THEN IncBits(m) ELSE m)

\* A value of 2^MantBits or more: every double there is whole.
RoundLarge(neg, bits, fracNonZero) ==
    With(RoundUp(SubSeq(bits, 1, MantBits), bits[MantBits + 1],
                 fracNonZero \/ \E i \in (MantBits + 2)..Len(bits) : bits[i] = 1)
             \o Zeros(Len(bits) - MantBits),
         LAMBDA all : IF Len(all) > MaxBits THEN Inf(neg)
                      ELSE Finite(neg, FromBits(all), <<>>))

\* The bits of 0.f up to the last one the double keeps and the guard bit
\* after it.  lim is the number of bits wanted; while no 1 has appeared and
\* the integer part is zero (open), it is the guard of the smallest subnormal.
FracStep(state) ==
    With(state, LAMBDA st :
        IF Len(st.bits) >= st.lim THEN st
        ELSE IF IsZero(st.f) THEN
            [st EXCEPT !.bits = @ \o Zeros((IF st.open THEN 1 ELSE st.lim) - Len(@)),
                       !.lim = IF st.open THEN 1 ELSE @]
        ELSE With(DoubleFrac(st.f), LAMBDA d :
                 LET kept == IF Len(st.bits) + MantBits < MinBit
                             THEN Len(st.bits) + MantBits ELSE MinBit
                 IN  [f    |-> d.rest,
                      bits |-> Append(st.bits, d.bit),
                      lim  |-> IF st.open /\ d.bit = 1 THEN kept + 1 ELSE st.lim,
                      open |-> st.open /\ d.bit = 0]))

RECURSIVE FracLoop(_, _)
FracLoop(st, n) ==
    IF n = 0 THEN st
    ELSE IF n = 1 THEN FracStep(st)
    ELSE With(<<FracLoop(st, n \div 2), n - n \div 2>>, LAMBDA h :
             IF Len(h[1].bits) >= h[1].lim THEN h[1] ELSE FracLoop(h[1], h[2]))

FracBits(f, lim, open) ==
    FracLoop([f |-> f, bits |-> <<>>, lim |-> lim, open |-> open], MinBit + 1)

\* A value below 2^MantBits: the significand m, whose last k bits stand after
\* the binary point.
SmallDouble(neg, mant, k) ==
    With(mant, LAMBDA m :
        Finite(neg, FromBits(SubSeq(m, 1, Len(m) - k)),
               StripTrailingZeros(SubSeq(m, Len(m) - k + 1, Len(m)))))

\* The integer bits ib and the fraction bits fr.bits, of which the last is the
\* guard bit; fr.f is what the bits left out.
RoundFrac(neg, ib, frac) ==
    With(frac, LAMBDA fr :
        SmallDouble(neg,
                    RoundUp(ib \o SubSeq(fr.bits, 1, Len(fr.bits) - 1),
                            fr.bits[Len(fr.bits)], ~IsZero(fr.f)),
                    Len(fr.bits) - 1))

\* A value below 2^MantBits with integer bits ib and fraction digits f.
RoundSmall(neg, ib, f) ==
    RoundFrac(neg, ib,
              FracBits(f, IF ib = <<>> THEN MinBit + 1 ELSE MantBits - Len(ib) + 1,
                       ib = <<>>))

RoundBits(neg, bits, frac) ==
    With(<<bits, frac>>, LAMBDA v :
        IF Len(v[1]) > MantBits THEN RoundLarge(neg, v[1], ~IsZero(v[2]))
        ELSE RoundSmall(neg, v[1], v[2]))

\* The double nearest to the value with integer digits ip and fraction
\* digits f.
RoundToDouble(neg, ip, f) == RoundBits(neg, ToBits(StripZeros(ip)), f)

\* The double nearest to 0.d1d2... * 10^point, d1 # 0.  Past MaxIntDigits
\* digits the value exceeds every double; left of MinPoint it is below half
\* the smallest subnormal.
RoundDecimal(neg, d, point) ==
    IF point > MaxIntDigits THEN Inf(neg)
    ELSE IF point < MinPoint THEN Finite(neg, <<>>, <<>>)
    ELSE IF point >= Len(d) THEN RoundToDouble(neg, d \o Zeros(point - Len(d)), <<>>)
    ELSE IF point <= 0 THEN RoundToDouble(neg, <<>>, Zeros(-point) \o d)
    ELSE RoundToDouble(neg, SubSeq(d, 1, point), SubSeq(d, point + 1, Len(d)))

ParseDecimal(neg, s) ==
    LET n      == Len(s)
        i1     == SpanDigits(s, 1)
        hasDot == i1 <= n /\ s[i1] = "."
        i2     == IF hasDot THEN SpanDigits(s, i1 + 1) ELSE i1
        intd   == SeqMap(DigitVal, SubSeq(s, 1, i1 - 1))
        fracd  == IF hasDot THEN SeqMap(DigitVal, SubSeq(s, i1 + 1, i2 - 1))
                  ELSE <<>>
        hasExp == i2 <= n /\ s[i2] \in {"e", "E"}
        eneg   == hasExp /\ i2 + 1 <= n /\ s[i2 + 1] = "-"
        i3     == IF hasExp /\ i2 + 1 <= n /\ s[i2 + 1] \in {"+", "-"}
                  THEN i2 + 2 ELSE i2 + 1
        i4     == SpanDigits(s, i3)
        last   == IF hasExp THEN i4 ELSE i2
        ok     == /\ Len(intd) + Len(fracd) >= 1
                  /\ hasExp => i4 > i3
                  /\ last = n + 1
        e      == IF hasExp
                  THEN ToNat(SeqMap(DigitVal, SubSeq(s, i3, i4 - 1)), 0)
                  ELSE 0
        all    == intd \o fracd
        lead   == Len(all) - Len(StripZeros(all))
        point  == Len(intd) - lead + (IF eneg THEN -e ELSE e)
    IN  IF ~ok THEN ValueError
        ELSE With(StripTrailingZeros(StripZeros(all)), LAMBDA d :
                 IF d = <<>> THEN Finite(neg, <<>>, <<>>)
                 ELSE RoundDecimal(neg, d, point))

Word(s) == SeqMap(Lower, s)

float(text) ==
    With(Strip(text), LAMBDA t :
    With(IF UnderscoresOk(t) THEN DropUnderscores(t) ELSE <<"_">>, LAMBDA u :
    With([neg  |-> u # <<>> /\ u[1] = "-",
          body |-> IF u # <<>> /\ u[1] \in {"+", "-"} THEN Tail(u) ELSE u],
         LAMBDA p :
             IF Word(p.body) \in {<<"i", "n", "f">>,
                                  <<"i", "n", "f", "i", "n", "i", "t", "y">>}
             THEN Inf(p.neg)
             ELSE IF Word(p.body) = <<"n", "a", "n">> THEN NaN
             ELSE ParseDecimal(p.neg, p.body))))

\* float.is_integer(): finite and equal to its floor.
\* A variant of is_integer that takes every finite double for whole.
is_integer_of_finite(f) == f.kind = "finite"

is_integer(f) == f.kind = "finite" /\ f.fb = <<>>

(***************************************************************************)
(* The three kinds of value parse_number returns.  A Python int has no     *)
(* negative zero.                                                          *)
(***************************************************************************)
IntValue(neg, digits) ==
    [tag |-> "int", neg |-> neg /\ digits # <<>>, digits |-> digits]
FloatValue(f) == [tag |-> "float", val |-> f]
StrValue(text) == [tag |-> "str", text |-> text]

\* int(float_val): the double's value cut at the point; an infinity raises
\* OverflowError and a NaN ValueError.
int(f) ==
    CASE f.kind = "inf" -> OverflowError
      [] f.kind = "nan" -> ValueError
      [] OTHER -> IntValue(f.neg, f.ip)

(***************************************************************************)
(* parse_number (cli.py lines 11-22)                                       *)
(***************************************************************************)
\* A variant of parse_number without the except clause.
parse_number_no_except(v) ==
    With(float(v), LAMBDA float_val :
        IF float_val = ValueError THEN ValueError
        ELSE IF is_integer(float_val) THEN int(float_val)
        ELSE FloatValue(float_val))

\* The except clause takes a ValueError from float or from int; any other
\* exception leaves parse_number.
parse_number(v) ==
    With(float(v), LAMBDA float_val :
        IF float_val = ValueError THEN StrValue(v)
        ELSE IF is_integer(float_val)
             THEN With(int(float_val), LAMBDA n :
                      IF n = ValueError THEN StrValue(v) ELSE n)
        ELSE FloatValue(float_val))

(***************************************************************************)
(* The parser main builds (cli.py lines 27-62) and parser.parse_args       *)
(* (line 64).  Option strings are given in full and a value is an argument *)
(* of its own.                                                             *)
(***************************************************************************)
OptModel == {<<"-", "-", "m", "o", "d", "e", "l">>, <<"-", "m">>}
OptApiKey == {<<"-", "-", "a", "p", "i", "-", "k", "e", "y">>, <<"-", "k">>}
OptBaseUrl == {<<"-", "-", "b", "a", "s", "e", "-", "u", "r", "l">>, <<"-", "u">>}
OptVerbose == {<<"-", "-", "v", "e", "r", "b", "o", "s", "e">>, <<"-", "v">>}
OptVersion == {<<"-", "-", "v", "e", "r", "s", "i", "o", "n">>}

StoreOptions == OptModel \cup OptApiKey \cup OptBaseUrl
OptionStrings == StoreOptions \cup OptVerbose \cup OptVersion

DefaultModel ==
    StrValue(<<"g", "p", "t", "-", "3", ".", "5", "-", "t", "u", "r", "b", "o">>)

\* The namespace before any argument is read: the defaults of add_argument.
Defaults ==
    [number   |-> PyNone,
     model    |-> DefaultModel,
     api_key  |-> PyNone,
     base_url |-> PyNone,
     verbose  |-> FALSE]

\* argparse's test for a negative number: -digits or -digits.digits.
NegativeNumber(a) ==
    /\ Len(a) >= 2
    /\ a[1] = "-"
    /\ LET i == SpanDigits(a, 2)
       IN  \/ i = Len(a) + 1
           \/ /\ i <= Len(a)
              /\ a[i] = "."
              /\ i < Len(a)
              /\ SpanDigits(a, i + 1) = Len(a) + 1

\* An argument is read as an option when it starts with "-", is more than
\* the "-" alone, and is no negative number; anything else is a positional.
IsOption(a) ==
    /\ a # <<>>
    /\ a[1] = "-"
    /\ \/ a \in OptionStrings
       \/ Len(a) > 1 /\ ~NegativeNumber(a)

Store(ns, opt, val) ==
    IF opt \in OptModel THEN [ns EXCEPT !.model = StrValue(val)]
    ELSE IF opt \in OptApiKey THEN [ns EXCEPT !.api_key = StrValue(val)]
    ELSE [ns EXCEPT !.base_url = StrValue(val)]

\* The arguments from the i-th on.  extras counts the arguments nothing
\* takes: an unknown option, a second positional.
RECURSIVE ParseFrom(_, _, _, _)
ParseFrom(args, i, ns, extras) ==
    IF i > Len(args) THEN
        IF ns.number = PyNone \/ extras > 0
        THEN [status |-> "error", ns |-> ns]
        ELSE [status |-> "ok", ns |-> ns]
    ELSE IF ~IsOption(args[i]) THEN
        IF ns.number = PyNone
        THEN ParseFrom(args, i + 1, [ns EXCEPT !.number = StrValue(args[i])], extras)
        ELSE ParseFrom(args, i + 1, ns, extras + 1)
    ELSE IF args[i] \in StoreOptions THEN
        IF i < Len(args) /\ ~IsOption(args[i + 1])
        THEN ParseFrom(args, i + 2, Store(ns, args[i], args[i + 1]), extras)
        ELSE [status |-> "error", ns |-> ns]
    ELSE IF args[i] \in OptVerbose THEN
        ParseFrom(args, i + 1, [ns EXCEPT !.verbose = TRUE], extras)
    ELSE IF args[i] \in OptVersion THEN [status |-> "version", ns |-> ns]
    ELSE ParseFrom(args, i + 1, ns, extras + 1)

parse_args(args) == ParseFrom(args, 1, Defaults, 0)

(***************************************************************************)
(* One run of main (cli.py lines 25-99).                                   *)
(*   args        the argument list                                         *)
(*   parsed_args the namespace parse_args returned                         *)
(*   number      parse_number's result                                     *)
(*   calls       the keyword arguments of each call of is_even             *)
(*   outcome     how the call of is_even ended                             *)
(*   stdout, stderr  the lines printed                                     *)
(*   exit_code   <<>> while running, then the exit code of the process     *)
(*   escaped     whether an exception left main                            *)
(***************************************************************************)
NewRun(args) ==
    [pc          |-> "parse_args",
     args        |-> args,
     parsed_args |-> Defaults,
     number      |-> PyNone,
     calls       |-> <<>>,
     outcome     |-> "none",
     stdout      |-> <<>>,
     stderr      |-> <<>>,
     exit_code   |-> <<>>,
     escaped     |-> FALSE]

Idle == [NewRun(<<>>) EXCEPT !.pc = "idle"]

\* is_even (core.py, not part of these sources): it returns a boolean, raises
\* an error, or is interrupted by the user.
Outcomes == {"True", "False", "Exception", "KeyboardInterrupt"}

Line(kind, what) == [kind |-> kind, what |-> what]

\* A variant of line 64 as if parse_args stood inside the try block.
DoParseArgs_caught(r, rn) ==
    /\ r.pc = "parse_args"
    /\ \E p \in {parse_args(r.args)} :
           rn = IF p.status = "ok"
                THEN [r EXCEPT !.parsed_args = p.ns, !.pc = "parse_number"]
                ELSE [r EXCEPT !.stderr = Append(@, Line("error", PyNone)),
                               !.exit_code = <<1>>,
                               !.pc = "done"]

\* Line 64.  An argument error and --version leave main by SystemExit,
\* outside the try block.
DoParseArgs(r, rn) ==
    /\ r.pc = "parse_args"
    /\ \E p \in {parse_args(r.args)} :
           rn = CASE p.status = "ok" ->
                       [r EXCEPT !.parsed_args = p.ns, !.pc = "parse_number"]
                  [] p.status = "version" ->
                       [r EXCEPT !.stdout = Append(@, Line("version", PyNone)),
                                 !.exit_code = <<0>>,
                                 !.escaped = TRUE,
                                 !.pc = "done"]
                  [] OTHER ->
                       [r EXCEPT !.stderr = Append(@, Line("usage", PyNone)),
                                 !.exit_code = <<2>>,
                                 !.escaped = TRUE,
                                 !.pc = "done"]

\* Line 68, inside the try block: an exception parse_number raised would be
\* handled at line 93.
DoMainParseNumber(r, rn) ==
    /\ r.pc = "parse_number"
    /\ \E number \in {parse_number(r.parsed_args.number.text)} :
           rn = IF number.tag = "raise"
                THEN [r EXCEPT !.pc = "except_Exception"]
                ELSE [r EXCEPT !.number = number,
                               !.pc = IF r.parsed_args.verbose THEN "echo"
                                      ELSE "is_even"]

\* A variant of lines 70-72 in which the verbose run keeps the raw text.
DoEcho_raw_text(r, rn) ==
    /\ r.pc = "echo"
    /\ rn = [r EXCEPT !.stdout = @ \o <<Line("checking", r.number),
                                        Line("model", r.parsed_args.model)>>,
                      !.number = StrValue(r.parsed_args.number.text),
                      !.pc = "is_even"]

\* Lines 70-72.
DoEcho(r, rn) ==
    /\ r.pc = "echo"
    /\ rn = [r EXCEPT !.stdout = @ \o <<Line("checking", r.number),
                                        Line("model", r.parsed_args.model)>>,
                      !.pc = "is_even"]

\* A variant of the call with api_key and base_url exchanged.
Kwargs_swapped(r) ==
    [number   |-> r.number,
     model    |-> r.parsed_args.model,
     api_key  |-> r.parsed_args.base_url,
     base_url |-> r.parsed_args.api_key]

\* is_even's keyword arguments (lines 75-80).
Kwargs(r) ==
    [number   |-> r.number,
     model    |-> r.parsed_args.model,
     api_key  |-> r.parsed_args.api_key,
     base_url |-> r.parsed_args.base_url]

\* A variant of the call that is tried again after a first error.
DoIsEven_retry(r, rn, allowed) ==
    /\ r.pc = "is_even"
    /\ \E o \in allowed :
          rn = [r EXCEPT !.calls = Append(@, [number   |-> r.number,
                                              model    |-> r.parsed_args.model,
                                              api_key  |-> r.parsed_args.api_key,
                                              base_url |-> r.parsed_args.base_url]),
                         !.outcome = o,
                         !.pc = CASE o \in {"True", "False"} -> "display"
                                  [] o = "KeyboardInterrupt" -> "except_KeyboardInterrupt"
                                  [] r.calls = <<>> -> "is_even"
                                  [] OTHER -> "except_Exception"]

\* Lines 75-80: the call, and where its outcome leads.
DoIsEven(r, rn, allowed) ==
    /\ r.pc = "is_even"
    /\ \E o \in allowed :
          rn = [r EXCEPT !.calls = Append(@, Kwargs(r)),
                         !.outcome = o,
                         !.pc = CASE o \in {"True", "False"} -> "display"
                                  [] o = "KeyboardInterrupt" -> "except_KeyboardInterrupt"
                                  [] OTHER -> "except_Exception"]

\* A variant of lines 83-88 with the two lines exchanged.
DoDisplay_swapped(r, rn) ==
    /\ r.pc = "display"
    /\ rn = [r EXCEPT !.stdout = Append(@, IF r.outcome = "True"
                                           THEN Line("ODD", r.number)
                                           ELSE Line("EVEN", r.number)),
                      !.exit_code = <<0>>,
                      !.pc = "done"]

\* Lines 83-88.
DoDisplay(r, rn) ==
    /\ r.pc = "display"
    /\ rn = [r EXCEPT !.stdout = Append(@, IF r.outcome = "True"
                                           THEN Line("EVEN", r.number)
                                           ELSE Line("ODD", r.number)),
                      !.exit_code = <<0>>,
                      !.pc = "done"]

\* A variant of lines 90-92 that treats a cancellation as any other error.
DoExceptKeyboardInterrupt_generic(r, rn) ==
    /\ r.pc = "except_KeyboardInterrupt"
    /\ rn = [r EXCEPT !.stderr = @ \o (IF r.parsed_args.verbose
                                       THEN <<Line("error", PyNone),
                                              Line("traceback", PyNone)>>
                                       ELSE <<Line("error", PyNone)>>),
                      !.exit_code = <<1>>,
                      !.pc = "done"]

\* Lines 90-92.
DoExceptKeyboardInterrupt(r, rn) ==
    /\ r.pc = "except_KeyboardInterrupt"
    /\ rn = [r EXCEPT !.stdout = Append(@, Line("cancelled", PyNone)),
                      !.exit_code = <<130>>,
                      !.pc = "done"]

\* A variant of lines 93-99 that reports the error on standard output.
DoExceptException_stdout(r, rn) ==
    /\ r.pc = "except_Exception"
    /\ rn = [r EXCEPT !.stdout = Append(@, Line("error", PyNone)),
                      !.exit_code = <<1>>,
                      !.pc = "done"]

\* Lines 93-99.
DoExceptException(r, rn) ==
    /\ r.pc = "except_Exception"
    /\ rn = [r EXCEPT !.stderr = @ \o (IF r.parsed_args.verbose
                                       THEN <<Line("error", PyNone),
                                              Line("traceback", PyNone)>>
                                       ELSE <<Line("error", PyNone)>>),
                      !.exit_code = <<1>>,
                      !.pc = "done"]

(***************************************************************************)
(* Input                                                                   *)
(***************************************************************************)
Alphabet == {"0", "1", "5", "-", "+", ".", "e", "n", "a", "\"", " "}

RECURSIVE Texts(_)
Texts(n) ==
    IF n = 0 THEN {<<>>}
    ELSE Texts(n - 1) \cup {Append(t, c) : t \in {u \in Texts(n - 1) : Len(u) = n - 1},
                                           c \in Alphabet}

LongTexts ==
    { <<"9", "0", "0", "7", "1", "9", "9", "2", "5", "4", "7", "4", "0", "9", "9", "2">>,
      <<"9", "0", "0", "7", "1", "9", "9", "2", "5", "4", "7", "4", "0", "9", "9", "3">>,
      <<"-", "9", "0", "0", "7", "1", "9", "9", "2", "5", "4", "7", "4", "0", "9", "9", "5">>,
      <<"9", "0", "0", "7", "1", "9", "9", "2", "5", "4", "7", "4", "0", "9", "9", "2", ".", "5">>,
      <<"1", ".", "0", "0", "0", "0", "0", "0", "0", "0", "0", "0", "0", "0", "0", "0", "0", "0", "0", "1">>,
      <<"1", "e", "-", "4", "0", "0">>,
      <<"1", "e", "4", "0", "0">>,
      <<"i", "n", "f">>,
      <<"-", "I", "n", "f", "i", "n", "i", "t", "y">>,
      <<"N", "a", "N">>,
      <<"1", "_", "0">>,
      <<"1", "_", "_", "0">>,
      <<"4", "2", "a", "b", "c">>,
      <<"h", "e", "l", "l", "o">>,
      <<"\"", "1", "7", "\"">> }

InputTexts == Texts(MaxLen) \cup LongTexts

\* The arguments a command line is made of.
Words ==
    OptionStrings
      \cup { <<"-", "-", "b", "o", "g", "u", "s">>,
             <<"4", "2">>,
             <<"1", "0", ".", "5">>,
             <<"-", "4">>,
             <<"\"", "1", "7", "\"">>,
             <<>>,
             <<"g", "p", "t", "-", "4">> }

RECURSIVE ArgLists(_)
ArgLists(n) ==
    IF n = 0 THEN {<<>>}
    ELSE ArgLists(n - 1)
           \cup {Append(a, w) : a \in {b \in ArgLists(n - 1) : Len(b) = n - 1},
                                w \in Words}

(***************************************************************************)
(* parse_number called on its own, as the tests call it.                   *)
(***************************************************************************)
ParseNumber ==
    /\ ppc = "call"
    /\ ret' = parse_number(value)
    /\ ppc' = "return"
    /\ UNCHANGED <<value, run, twin>>

InitParse ==
    /\ value \in InputTexts
    /\ ret = PyNone
    /\ ppc = "call"
    /\ run = Idle
    /\ twin = Idle

SpecParse == InitParse /\ [][ParseNumber]_vars

(***************************************************************************)
(* One run of main.                                                        *)
(***************************************************************************)
Others == <<twin, value, ret, ppc>>

ParseArgs == DoParseArgs(run, run') /\ UNCHANGED Others
MainParseNumber == DoMainParseNumber(run, run') /\ UNCHANGED Others
Echo == DoEcho(run, run') /\ UNCHANGED Others
IsEven == DoIsEven(run, run', Outcomes) /\ UNCHANGED Others
Display == DoDisplay(run, run') /\ UNCHANGED Others
ExceptKeyboardInterrupt == DoExceptKeyboardInterrupt(run, run') /\ UNCHANGED Others
ExceptException == DoExceptException(run, run') /\ UNCHANGED Others

Init ==
    /\ run \in {NewRun(a) : a \in ArgLists(MaxArgs)}
    /\ twin = Idle
    /\ value = <<>>
    /\ ret = PyNone
    /\ ppc = "idle"

Next ==
    \/ ParseArgs
    \/ MainParseNumber
    \/ Echo
    \/ IsEven
    \/ Display
    \/ ExceptKeyboardInterrupt
    \/ ExceptException

Spec == Init /\ [][Next]_vars

\* main given one text to check, with or without -v before it.
InitText ==
    /\ \E t \in Texts(MaxLen - 1) \cup LongTexts :
          run \in {NewRun(<<t>>), NewRun(<<<<"-", "v">>, t>>)}
    /\ twin = Idle
    /\ value = <<>>
    /\ ret = PyNone
    /\ ppc = "idle"

SpecText == InitText /\ [][Next]_vars

\* Python runs main's statements one after the other until main returns or
\* an exception leaves it.
FairSpec == Spec /\ WF_vars(Next)

(***************************************************************************)
(* Two runs of main, one after the other: the second (twin) is given the   *)
(* arguments of the first with a verbose flag added somewhere, and is_even *)
(* ends in it the way it ended in the first.                               *)
(***************************************************************************)
Insert(a, i, w) == SubSeq(a, 1, i) \o <<w>> \o SubSeq(a, i + 1, Len(a))

Rest == <<run, value, ret, ppc>>

SameOutcome == IF run.calls = <<>> THEN Outcomes ELSE {run.outcome}

TwinParseArgs == run.pc = "done" /\ DoParseArgs(twin, twin') /\ UNCHANGED Rest
TwinParseNumber == DoMainParseNumber(twin, twin') /\ UNCHANGED Rest
TwinEcho == DoEcho(twin, twin') /\ UNCHANGED Rest
TwinIsEven == DoIsEven(twin, twin', SameOutcome) /\ UNCHANGED Rest
TwinDisplay == DoDisplay(twin, twin') /\ UNCHANGED Rest
TwinExceptKeyboardInterrupt ==
    DoExceptKeyboardInterrupt(twin, twin') /\ UNCHANGED Rest
TwinExceptException == DoExceptException(twin, twin') /\ UNCHANGED Rest

\* The first run is one that reaches is_even without a verbose flag.
PairArgs ==
    {a \in ArgLists(MaxArgs) :
        parse_args(a).status = "ok" /\ ~parse_args(a).ns.verbose}

InitPair ==
    /\ run \in {NewRun(a) : a \in PairArgs}
    /\ \E i \in 0..Len(run.args), w \in OptVerbose :
          twin = NewRun(Insert(run.args, i, w))
    /\ value = <<>>
    /\ ret = PyNone
    /\ ppc = "idle"

NextPair ==
    \/ ParseArgs
    \/ MainParseNumber
    \/ IsEven
    \/ Display
    \/ ExceptKeyboardInterrupt
    \/ ExceptException
    \/ TwinParseArgs
    \/ TwinParseNumber
    \/ TwinEcho
    \/ TwinIsEven
    \/ TwinDisplay
    \/ TwinExceptKeyboardInterrupt
    \/ TwinExceptException

SpecPair == InitPair /\ [][NextPair]_vars

(***************************************************************************)
(* Properties                                                              *)
(***************************************************************************)
Done(r) == r.pc = "done"

Count(lines, kind) == Cardinality({i \in 1..Len(lines) : lines[i].kind = kind})

\* The text given as the positional argument.
Text(r) == r.parsed_args.number.text

Parsed(r) == parse_args(r.args).status = "ok"

\* C1: when is_even returns true main returns 0 and prints exactly one EVEN
\* line and no ODD line; when it returns false main returns 0 and prints
\* exactly one ODD line and no EVEN line; no run prints both.
C1_ResultLine ==
    /\ ~(Count(run.stdout, "EVEN") > 0 /\ Count(run.stdout, "ODD") > 0)
    /\ Done(run) /\ run.outcome = "True" =>
          /\ run.exit_code = <<0>> /\ ~run.escaped
          /\ Len(run.calls) = 1
          /\ Count(run.stdout, "EVEN") = 1
          /\ Count(run.stdout, "ODD") = 0
          /\ run.stdout[Len(run.stdout)] = Line("EVEN", run.number)
    /\ Done(run) /\ run.outcome = "False" =>
          /\ run.exit_code = <<0>> /\ ~run.escaped
          /\ Len(run.calls) = 1
          /\ Count(run.stdout, "ODD") = 1
          /\ Count(run.stdout, "EVEN") = 0
          /\ run.stdout[Len(run.stdout)] = Line("ODD", run.number)

C1_Witness ==
    /\ Done(run) /\ run.outcome = "False" /\ run.parsed_args.verbose
    /\ run.number = IntValue(TRUE, <<4>>)
    /\ Count(run.stdout, "ODD") = 1

\* C2: when is_even raises an error that is no cancellation, main returns 1
\* and writes an error line to standard error, and standard output holds no
\* EVEN or ODD line, whatever the text and the flags.
C2_GenericError ==
    Done(run) /\ run.outcome = "Exception" =>
        /\ run.exit_code = <<1>> /\ ~run.escaped
        /\ Count(run.stderr, "error") = 1
        /\ Count(run.stdout, "EVEN") = 0
        /\ Count(run.stdout, "ODD") = 0

C2_Witness ==
    /\ Done(run) /\ run.outcome = "Exception" /\ run.parsed_args.verbose
    /\ run.number.tag = "float"
    /\ Count(run.stderr, "traceback") = 1

\* C3: when the user interrupts the call of is_even, main returns 130,
\* prints the cancellation message, which is not the error message, and
\* shows no traceback, with --verbose or without it.
C3_Cancellation ==
    Done(run) /\ run.outcome = "KeyboardInterrupt" =>
        /\ run.exit_code = <<130>> /\ ~run.escaped
        /\ Count(run.stdout, "cancelled") = 1
        /\ Count(run.stderr, "error") = 0
        /\ Count(run.stdout, "error") = 0
        /\ Count(run.stderr, "traceback") = 0

C3_Witness ==
    /\ Done(run) /\ run.outcome = "KeyboardInterrupt" /\ run.parsed_args.verbose
    /\ run.exit_code = <<130>>

\* C4, as claimed: every run ends with exit code 0, 1 or 130 and no
\* exception leaves main.
C4_Original ==
    Done(run) => run.exit_code \in {<<0>>, <<1>>, <<130>>} /\ ~run.escaped

\* C4, amended: every run ends with exit code 0, 1, 2 or 130.  An argument
\* list parse_args rejects ends with 2 and --version with 0, both by a
\* SystemExit that leaves main; once the arguments are parsed nothing leaves
\* main: it returns 0 when is_even returns, 1 when it raises an error, 130
\* when it is cancelled.
C4_ExitCodes ==
    Done(run) =>
        LET status == parse_args(run.args).status
        IN  /\ run.exit_code \in {<<0>>, <<1>>, <<2>>, <<130>>}
            /\ run.escaped <=> status # "ok"
            /\ status = "error" => run.exit_code = <<2>> /\ Count(run.stderr, "usage") = 1
            /\ status = "version" => run.exit_code = <<0>> /\ run.stdout = <<Line("version", PyNone)>>
            /\ status = "ok" =>
                  /\ run.exit_code = <<0>> <=> run.outcome \in {"True", "False"}
                  /\ run.exit_code = <<1>> <=> run.outcome = "Exception"
                  /\ run.exit_code = <<130>> <=> run.outcome = "KeyboardInterrupt"

C4_Witness == Done(run) /\ run.exit_code = <<2>> /\ run.escaped /\ Len(run.args) = 0

\* The value the argument list supplies for an option, or the default.
Supplied(args, opts, default) ==
    LET at == {i \in 1..Len(args) : args[i] \in opts}
    IN  IF at = {} THEN default
        ELSE StrValue(args[(CHOOSE i \in at : \A j \in at : j <= i) + 1])

\* C5: is_even is given model "gpt-3.5-turbo", api_key None and base_url None
\* unless --model/-m, --api-key/-k or --base-url/-u is supplied; each of them
\* sets its own field to the value supplied and no other field, and --verbose
\* sets none.
C5_Configuration ==
    run.calls # <<>> =>
        /\ run.calls[1].model = Supplied(run.args, OptModel, DefaultModel)
        /\ run.calls[1].api_key = Supplied(run.args, OptApiKey, PyNone)
        /\ run.calls[1].base_url = Supplied(run.args, OptBaseUrl, PyNone)

C5_Witness ==
    /\ run.calls # <<>>
    /\ run.calls[1].api_key = StrValue(<<"g", "p", "t", "-", "4">>)
    /\ run.calls[1].model = DefaultModel
    /\ run.calls[1].base_url = PyNone

NotDiagnostic(l) == l.kind \notin {"checking", "model", "traceback"}

\* C6: two runs that differ only by a verbose flag, and in which is_even
\* ends the same way, have the same exit code, give is_even the same
\* arguments and print the same EVEN or ODD line; the verbose run only adds
\* diagnostic lines.
C6_VerboseOnlyAdds ==
    /\ Done(run) /\ Done(twin)
    /\ run.calls # <<>> /\ twin.calls # <<>>
    /\ run.outcome = twin.outcome
    => /\ twin.exit_code = run.exit_code
       /\ twin.calls = run.calls
       /\ SelectSeq(twin.stdout, NotDiagnostic) = run.stdout
       /\ SelectSeq(twin.stderr, NotDiagnostic) = run.stderr

C6_Witness ==
    /\ Done(run) /\ Done(twin)
    /\ run.outcome = "Exception" /\ twin.outcome = "Exception"
    /\ ~run.parsed_args.verbose /\ twin.parsed_args.verbose
    /\ Len(twin.stderr) > Len(run.stderr)
    /\ Len(twin.stdout) > Len(run.stdout)

\* An integer literal: an optional sign, then one digit or more.
IntegerLiteral(t) ==
    LET digits == IF t # <<>> /\ t[1] \in {"+", "-"} THEN Tail(t) ELSE t
    IN  digits # <<>> /\ \A i \in 1..Len(digits) : digits[i] \in DigitChars

LiteralValue(t) ==
    IntValue(t[1] = "-",
             StripZeros(SeqMap(DigitVal, IF t[1] \in {"+", "-"} THEN Tail(t) ELSE t)))

\* C7: for an integer literal of any size parse_number returns the integer
\* the literal denotes, with no digit lost.
C7_ExactInteger ==
    ppc = "return" /\ IntegerLiteral(value) => ret = LiteralValue(value)

\* C8: parse_number raises for no text; a text whose conversion fails is
\* returned as it is, character for character, and main gives is_even that
\* same text.
C8_RawString ==
    /\ run.pc = "except_Exception" => run.calls # <<>>
    /\ run.pc \notin {"parse_args", "parse_number"} /\ Parsed(run)
           /\ float(Text(run)) = ValueError =>
          /\ run.number = StrValue(run.args[Len(run.args)])
          /\ run.calls # <<>> => run.calls[1].number = run.number

C8_Witness ==
    /\ run.calls # <<>>
    /\ run.calls[1].number = StrValue(<<"\"", "1", "7", "\"">>)
    /\ Done(run)

\* C9, as claimed: when the conversion succeeds parse_number returns an
\* integer exactly when the converted value has no fractional part, and
\* otherwise the double itself.  An infinity has no fractional part.
C9_Original ==
    ppc = "return" /\ float(value) # ValueError =>
        LET f == float(value)
        IN  /\ ret.tag \in {"int", "float"}
            /\ ret.tag = "int" <=> f.kind # "nan" /\ f.fb = <<>>
            /\ ret.tag = "float" => ret.val = f

\* C9, amended: when the conversion succeeds parse_number returns an integer
\* exactly when the double is finite with no fractional part, the integer
\* being the double's value; otherwise, an infinity and a NaN included, it
\* returns the double itself; it never returns the text and never raises.
C9_IntegerOrFloat ==
    ppc = "return" /\ float(value) # ValueError =>
        LET f == float(value)
        IN  /\ ret.tag \in {"int", "float"}
            /\ ret.tag = "int" <=> f.kind = "finite" /\ f.fb = <<>>
            /\ ret.tag = "int" => ret = IntValue(f.neg, f.ip)
            /\ ret.tag = "float" => ret.val = f

C9_Witness ==
    /\ ppc = "return"
    /\ value = <<"1", "e", "4", "0", "0">>
    /\ ret = FloatValue(Inf(FALSE))

Printed(r) ==
    Count(r.stdout, "EVEN") + Count(r.stdout, "ODD") + Count(r.stdout, "cancelled")
        + Count(r.stderr, "error")

\* C10: is_even is called at most once in a run, exactly once when the
\* arguments parse, and not again after it returned, raised or was
\* cancelled; the call comes after the text is normalized and before any
\* result, cancellation or error line is printed; the run then ends.
C10_SingleCall ==
    /\ [](Len(run.calls) <= 1)
    /\ [](Done(run) => (Len(run.calls) = 1 <=> Parsed(run)))
    /\ [][run'.calls # run.calls =>
            /\ run.calls = <<>>
            /\ run.number = parse_number(Text(run))
            /\ run'.calls[1].number = run.number
            /\ Printed(run) = 0]_vars
    /\ []((Printed(run) > 0) => run.calls # <<>>)
    /\ [][Done(run) => run' = run]_vars
    /\ <>Done(run)

C10_Witness ==
    /\ Done(run) /\ Len(run.calls) = 1
    /\ run.outcome = "Exception"
    /\ Printed(run) = 1

====
